---- MODULE Spec2Model ----
(***************************************************************************)
(* A model of bioimg.segfree.profile: the tiler, the histogram primitive,  *)
(* the single-channel and multichannel fit / transform paths of            *)
(* SegfreeProfiler.  Arrays are nested sequences, a DataFrame is a record  *)
(* of column labels, row index and rows, a frequency is a pair <<n, d>>    *)
(* standing for n/d, and a raised Python exception is the err field of an  *)
(* operator's result.                                                      *)
(***************************************************************************)
EXTENDS Integers, Sequences, FiniteSets, TLC

VARIABLES
    tile_size, n_block_types, n_supblock_types, n_components, n_subset,
    pca, km_block, km_supblock, pixel_types,
    call, ret,
    flight

config == <<tile_size, n_block_types, n_supblock_types, n_components, n_subset>>
fitted == <<pca, km_block, km_supblock, pixel_types>>
vars == <<config, fitted, call, ret, flight>>

(***************************************************************************)
(* Generic helpers.                                                        *)
(***************************************************************************)
Range(s) == {s[i] : i \in DOMAIN s}

Min(a, b) == IF a <= b THEN a ELSE b

RECURSIVE SumSeq(_)
SumSeq(s) == IF s = <<>> THEN 0 ELSE s[1] + SumSeq(Tail(s))

RECURSIVE Flatten(_)
\* concatenation of a sequence of sequences
Flatten(ss) == IF ss = <<>> THEN <<>> ELSE ss[1] \o Flatten(Tail(ss))

RECURSIVE SortedSeq(_)
\* the elements of a finite set of integers in ascending order
SortedSeq(S) ==
    IF S = {} THEN <<>>
    ELSE LET m == CHOOSE x \in S : \A y \in S : x <= y
         IN <<m>> \o SortedSeq(S \ {m})

RECURSIVE Dedup(_)
\* first occurrences, in order of appearance
Dedup(s) ==
    IF s = <<>> THEN <<>>
    ELSE LET r == Dedup(SubSeq(s, 1, Len(s) - 1))
             x == s[Len(s)]
         IN IF x \in Range(r) THEN r ELSE Append(r, x)

IndexOf(s, x) == CHOOSE i \in DOMAIN s : s[i] = x

\* results of operations that may raise
Ok(v) == [err |-> "", val |-> v]
Raise(e) == [err |-> e, val |-> <<>>]

\* the first exception raised in a list comprehension, "" when none
FirstErr(rs) ==
    IF \A i \in DOMAIN rs : rs[i].err = "" THEN ""
    ELSE rs[CHOOSE i \in DOMAIN rs :
                /\ rs[i].err # ""
                /\ \A j \in 1..(i - 1) : rs[j].err = ""].err

Vals(rs) == [i \in DOMAIN rs |-> rs[i].val]

(***************************************************************************)
(* tile_images                                                             *)
(***************************************************************************)
ClipRowsLeading(px, r) == SubSeq(px, r + 1, Len(px))

\* img[0:-r, ...]: drop the trailing r rows
ClipRows(px, r) == SubSeq(px, 1, Len(px) - r)

\* img[:, 0:-r, ...]: drop the trailing r columns
ClipCols(px, r) == [i \in DOMAIN px |-> SubSeq(px[i], 1, Len(px[i]) - r)]

Width(px) == IF px = <<>> THEN 0 ELSE Len(px[1])

\* skimage view_as_blocks(img, block_shape).reshape(-1, *block_shape):
\* the blocks of the grid in row-major order
view_as_blocks(px, height, width, nchan, ndim) ==
    IF \/ Len(px) % height # 0
       \/ Width(px) % width # 0
       \/ (ndim = 3 /\ \E i \in DOMAIN px : \E j \in DOMAIN px[i] : Len(px[i][j]) # nchan)
    THEN Raise("ValueError")
    ELSE IF Len(px) = 0 \/ Width(px) = 0
    THEN Raise("ValueError")
    ELSE LET gh == Len(px) \div height
             gw == Width(px) \div width
         IN Ok([k \in 1..(gh * gw) |->
                  [i \in 1..height |->
                     [j \in 1..width |->
                        px[((k - 1) \div gw) * height + i][((k - 1) % gw) * width + j]]]])

tile_images(imgs, tsize) ==
    LET height == tsize[1]
        width == tsize[2]
        nd == imgs[1].ndim
    IN IF nd \in {2, 3}
       THEN LET h == imgs[1].shape[1]
                w == imgs[1].shape[2]
                nchan == IF nd = 3 THEN imgs[1].shape[3] ELSE 0
                clipH == [i \in DOMAIN imgs |->
                            IF h % height # 0 THEN ClipRows(imgs[i].px, h % height)
                            ELSE imgs[i].px]
                clipW == [i \in DOMAIN imgs |->
                            IF w % width # 0 THEN ClipCols(clipH[i], w % width)
                            ELSE clipH[i]]
                rs == [i \in DOMAIN imgs |-> view_as_blocks(clipW[i], height, width, nchan, nd)]
            IN IF FirstErr(rs) # "" THEN Raise(FirstErr(rs)) ELSE Ok(Vals(rs))
       ELSE IF nd > 3 THEN Raise("TypeError")
       ELSE Raise("UnboundLocalError")

(***************************************************************************)
(* pandas / numpy primitives.  A DataFrame is                              *)
(* [columns |-> labels, index |-> row labels, data |-> rows]; NaN is the   *)
(* frequency <<0, 0>>, the number 0 is <<0, 1>>.                           *)
(***************************************************************************)
NaN == <<0, 0>>
Zero == <<0, 1>>

Count(flat, v) == Cardinality({i \in DOMAIN flat : flat[i] = v})

\* arr.ravel() of a 2-D array
Ravel(m) == Flatten(m)

\* range(n) as a label sequence 0 .. n-1
PyRange(n) == [i \in 1..n |-> i - 1]

reindex(df, cols) ==
    [columns |-> cols,
     index |-> df.index,
     data |-> [r \in DOMAIN df.data |->
                 [j \in DOMAIN cols |->
                    IF cols[j] \in Range(df.columns)
                    THEN df.data[r][IndexOf(df.columns, cols[j])]
                    ELSE NaN]]]

fillna0(df) ==
    [df EXCEPT !.data = [r \in DOMAIN df.data |->
                           [j \in DOMAIN df.data[r] |->
                              IF df.data[r][j] = NaN THEN Zero ELSE df.data[r][j]]]]

reset_index(df) == [df EXCEPT !.index = PyRange(Len(df.data))]

\* pd.concat(frames): rows stacked, columns the union in order of first
\* appearance, cells a frame lacks NaN; an empty list raises ValueError
concat(frames) ==
    IF frames = <<>> THEN Raise("ValueError")
    ELSE LET cols == Dedup(Flatten([i \in DOMAIN frames |-> frames[i].columns]))
         IN Ok([columns |-> cols,
                index |-> Flatten([i \in DOMAIN frames |-> frames[i].index]),
                data |-> Flatten([i \in DOMAIN frames |-> reindex(frames[i], cols).data])])

\* pd.concat(frames, axis=1) of frames sharing the index 0..n-1
concat_columns(frames) ==
    [columns |-> Flatten([i \in DOMAIN frames |-> frames[i].columns]),
     index |-> frames[1].index,
     data |-> [r \in DOMAIN frames[1].data |->
                 Flatten([i \in DOMAIN frames |-> frames[i].data[r]])]]

rename(df, prefix, offset) ==
    [df EXCEPT !.columns = [j \in DOMAIN df.columns |-> <<prefix, df.columns[j] + offset>>]]

(***************************************************************************)
(* get_block_counts: relative frequency of each distinct element           *)
(***************************************************************************)
get_block_counts(a) ==
    LET levels == SortedSeq(Range(a))
    IN [columns |-> levels,
        index |-> <<0>>,
        data |-> <<[j \in DOMAIN levels |-> <<Count(a, levels[j]), Len(a)>>]>>]

(***************************************************************************)
(* sklearn KMeans and PCA.  A fitted clusterer is its k centres over nfeat *)
(* features; the centres are a function of the training rows, n_init and   *)
(* random_state (k of the distinct training rows); predict is the nearest  *)
(* centre, lowest label on ties.  cols records the column labels of the    *)
(* training frame; predict does not read it.                               *)
(***************************************************************************)
None == [isNone |-> TRUE, centers |-> <<>>, nfeat |-> 0, cols |-> <<>>]

Numerators(df) == [r \in DOMAIN df.data |-> [j \in DOMAIN df.data[r] |-> df.data[r][j][1]]]

Dist2(a, b) == SumSeq([j \in DOMAIN a |-> (a[j] - b[j]) * (a[j] - b[j])])

ArgMin(d) == CHOOSE i \in DOMAIN d :
                /\ \A j \in DOMAIN d : d[i] <= d[j]
                /\ \A j \in 1..(i - 1) : d[j] > d[i]

KMeans_fit(X, n_clusters, n_init, random_state) ==
    LET rows == Numerators(X)
        D == Dedup(rows)
    IN IF Len(rows) < n_clusters \/ n_clusters < 1 THEN Raise("ValueError")
       ELSE Ok([isNone |-> FALSE,
                centers |-> [i \in 1..n_clusters |->
                               D[((random_state + n_init + i - 1) % Len(D)) + 1]],
                nfeat |-> Len(X.columns),
                cols |-> X.columns])

\* KMeans.predict: labels 0 .. k-1
KMeans_predict(km, X) ==
    IF km.isNone THEN Raise("AttributeError")
    ELSE IF Len(X.columns) # km.nfeat \/ X.data = <<>> THEN Raise("ValueError")
    ELSE LET rows == Numerators(X)
         IN Ok([r \in DOMAIN rows |->
                  ArgMin([c \in DOMAIN km.centers |-> Dist2(rows[r], km.centers[c])]) - 1])

NonePCA == [isNone |-> TRUE, nfeat |-> 0, comps |-> <<>>]

\* PCA(n_components, svd_solver='randomized', whiten=True, random_state).fit:
\* a linear map onto n_components of the nfeat input axes, chosen by the seed
PCA_fit(X, ncomp, random_state) ==
    IF X = <<>> THEN Raise("ValueError")
    ELSE IF ncomp < 1 \/ ncomp > Min(Len(X), Len(X[1])) THEN Raise("ValueError")
    ELSE Ok([isNone |-> FALSE,
             nfeat |-> Len(X[1]),
             comps |-> [i \in 1..ncomp |-> ((random_state + i - 1) % Len(X[1])) + 1]])

PCA_transform(p, X) ==
    IF p.isNone THEN Raise("AttributeError")
    ELSE IF X = <<>> \/ Len(X[1]) # p.nfeat THEN Raise("ValueError")
    ELSE Ok([r \in DOMAIN X |-> [i \in DOMAIN p.comps |-> X[r][p.comps[i]]]])

(***************************************************************************)
(* Single-channel tile features, block types and superblocks               *)
(***************************************************************************)
NonZero(bl) == Cardinality({i \in DOMAIN Ravel(bl) : Ravel(bl)[i] # 0})

Size(bl) == Len(Ravel(bl))

\* (bl != 0).sum() > 0.5 * bl.size
IsForeground(bl) == 2 * NonZero(bl) > Size(bl)

\* np.where(mask)[0]: the 0-based positions of the foreground tiles, ascending
ForegroundPositions(blocks) == SortedSeq({k - 1 : k \in {i \in DOMAIN blocks : IsForeground(blocks[i])}})

get_blockfeats(blocks) ==
    LET where == ForegroundPositions(blocks)
        cat == concat([i \in DOMAIN where |-> get_block_counts(Ravel(blocks[where[i] + 1]))])
    IN IF cat.err # "" THEN cat
       ELSE Ok([cat.val EXCEPT !.index = where])

reindex_opt_skipped(df, cols) == df

\* reindex(columns=cols): cols = None leaves the frame as it is
reindex_opt(df, cols) == IF cols.isNone THEN df ELSE reindex(df, cols.cols)

\* np.zeros(n)[index] = labels, reshaped to grid_shape
Scatter(grid_shape, index, labels) ==
    [r \in 1..grid_shape[1] |->
       [c \in 1..grid_shape[2] |->
          LET k == (r - 1) * grid_shape[2] + (c - 1)
          IN IF k \in Range(index) THEN labels[IndexOf(index, k)] ELSE 0]]

get_block_types_unshifted(bf, km, cols, grid_shape) ==
    LET bf2 == fillna0(reindex_opt(bf, cols))
        pred == KMeans_predict(km, bf2)
    IN IF pred.err # "" THEN pred
       ELSE IF \E i \in DOMAIN bf.index : bf.index[i] >= grid_shape[1] * grid_shape[2]
       THEN Raise("IndexError")
       ELSE Ok(Scatter(grid_shape, bf.index, pred.val))

get_block_types(bf, km, cols, grid_shape) ==
    LET bf2 == fillna0(reindex_opt(bf, cols))
        pred == KMeans_predict(km, bf2)
    IN IF pred.err # "" THEN pred
       ELSE IF \E i \in DOMAIN bf.index : bf.index[i] >= grid_shape[1] * grid_shape[2]
       THEN Raise("IndexError")
       ELSE Ok(Scatter(grid_shape, bf.index, [i \in DOMAIN pred.val |-> pred.val[i] + 1]))

\* skimage view_as_windows(grid, w).reshape(-1, w, w): every w x w window,
\* stride 1, in row-major order of its top-left cell
view_as_windows(grid, w) ==
    IF Len(grid) < w \/ Width(grid) < w THEN Raise("ValueError")
    ELSE LET nr == Len(grid) - w + 1
             nc == Width(grid) - w + 1
         IN Ok([k \in 1..(nr * nc) |->
                  [i \in 1..w |->
                     [j \in 1..w |-> grid[((k - 1) \div nc) + i][((k - 1) % nc) + j]]]])

\* np.ceil(window_shape / 2) - 1, as a 1-based position
Mid(w) == (w + 1) \div 2

get_supblocks(img_blocked, window_shape) ==
    LET wins == view_as_windows(img_blocked, window_shape)
    IN IF wins.err # "" THEN wins
       ELSE LET mid == Mid(window_shape)
                fgr == SelectSeq(wins.val, LAMBDA sb : sb[mid][mid] # 0)
            IN IF fgr = <<>> THEN Raise("ValueError")
               ELSE concat([i \in DOMAIN fgr |-> get_block_counts(Ravel(fgr[i]))])

get_color_supblocks(img, window_shape) ==
    LET wins == view_as_windows(img, window_shape)
    IN IF wins.err # "" THEN wins
       ELSE concat([i \in DOMAIN wins.val |-> get_block_counts(Ravel(wins.val[i]))])

\* block.ravel() of each h x w x nchan tile
flatten_tiles(blocks) == [k \in DOMAIN blocks |-> Flatten(Ravel(blocks[k]))]

\* tuple(int(x / y) for x, y in zip(imgs[0].shape, self.tile_size))
GridShape(imgs, tsize) == <<imgs[1].shape[1] \div tsize[1], imgs[1].shape[2] \div tsize[2]>>

(***************************************************************************)
(* SegfreeProfiler.  self is the record of the fitted attributes, cfg the  *)
(* record of the configuration attributes.  A method's result is           *)
(* [err, st, val, work]: the exception raised ("" when it returns), the    *)
(* fitted attributes when it ends, the table it returns, and the stages    *)
(* that ran to completion before it ended.                                 *)
(***************************************************************************)
WindowShape == 3

NoTable == [columns |-> <<>>, index |-> <<>>, data |-> <<>>]

NoPixelTypes == [isNone |-> TRUE, cols |-> <<>>]

\* wrap an ndarray of numbers as the frame sklearn sees
AsFrame(X) ==
    [columns |-> PyRange(IF X = <<>> THEN 0 ELSE Len(X[1])),
     index |-> PyRange(Len(X)),
     data |-> [r \in DOMAIN X |-> [j \in DOMAIN X[r] |-> <<X[r][j], 1>>]]]

\* all pixels of an image's tile array, as get_block_counts(t) reads them
TilePixels(t) == Flatten([k \in DOMAIN t |-> Ravel(t[k])])

\* the per-image feature width handed to km_supblock on the single-channel path
SingleLabels(cfg) == PyRange(cfg.n_block_types + 1)

\* the per-image feature width handed to km_supblock on the multichannel path
MultiLabels(cfg) == PyRange(cfg.n_block_types)

\* the outcome of a list comprehension: the first exception raised in it, or
\* the list of its values
Collect(rs) == IF FirstErr(rs) # "" THEN Raise(FirstErr(rs)) ELSE Ok(Vals(rs))

\* a method's result
Done(e, s, v, w) == [err |-> e, st |-> s, val |-> v, work |-> w]

\* lines 308-311 / 333-336: the frequencies of the predicted superblock types
supblock_table(cfg, preds) ==
    IF preds.err # "" THEN preds
    ELSE Ok(rename(fillna0(reindex(
                reset_index(concat([i \in DOMAIN preds.val |->
                                      get_block_counts(preds.val[i])]).val),
                PyRange(cfg.n_supblock_types))), "superblock", 1))

\* superblock-type frequencies of every image, lines 307-311 / 332-336
supblock_mean(self, cfg, supblocks, labels) ==
    supblock_table(cfg,
        Collect([i \in DOMAIN supblocks |->
                   KMeans_predict(self.km_supblock, fillna0(reindex(supblocks[i], labels)))]))

block_mean_labelled_only(blocks, labels, offset) ==
    rename(reset_index(fillna0(
        concat([i \in DOMAIN blocks |->
                  reindex(get_block_counts(Ravel(blocks[i])), Tail(labels))]).val)),
        "block", offset)

\* block-type frequencies of every image, lines 304-306 / 329-331
block_mean(blocks, labels, offset) ==
    rename(reset_index(fillna0(
        concat([i \in DOMAIN blocks |-> reindex(get_block_counts(Ravel(blocks[i])), labels)]).val)),
        "block", offset)

\* the block-type grids computed while fitting
fit_blocks(blockfeats, self, grid_shape) ==
    [i \in DOMAIN blockfeats |->
       get_block_types(blockfeats[i], self.km_block, self.pixel_types, grid_shape)]

transform_blocks_novocab(blockfeats, self, grid_shape) ==
    [i \in DOMAIN blockfeats |->
       get_block_types(blockfeats[i], self.km_block, NoPixelTypes, grid_shape)]

\* the block-type grids computed by transform
transform_blocks(blockfeats, self, grid_shape) ==
    [i \in DOMAIN blockfeats |->
       get_block_types(blockfeats[i], self.km_block, self.pixel_types, grid_shape)]

\* pixel_mean, lines 289-294: the grey-level frequencies of every image
pixel_mean(tiles, cols) ==
    rename(reset_index(fillna0(reindex_opt(
        concat([i \in DOMAIN tiles |-> get_block_counts(TilePixels(tiles[i]))]).val,
        cols))), "pixel", 0)

\* lines 312-313
transform_single_concat(s3, pm, bm, sm, w) ==
    IF sm.err # "" THEN Done(sm.err, s3, NoTable, w)
    ELSE Done("", s3, concat_columns(<<sm.val, bm, pm>>), Append(w, "supblock_mean"))

\* lines 304-311
transform_single_supblocks(s3, cfg, reuse, pm, blocks, supblocks, w) ==
    IF supblocks.err # "" THEN Done(supblocks.err, s3, NoTable, w)
    ELSE transform_single_concat(s3, pm,
             block_mean(blocks, SingleLabels(cfg), 0),
             supblock_mean(s3, cfg, supblocks.val, SingleLabels(cfg)),
             (IF reuse THEN w ELSE Append(w, "get_supblocks")) \o <<"block_mean">>)

\* line 303
transform_single_blocks(s3, cfg, imgs, reuse, supblocks_in, pm, blocks, w) ==
    IF blocks.err # "" THEN Done(blocks.err, s3, NoTable, w)
    ELSE transform_single_supblocks(s3, cfg, reuse, pm, blocks.val,
             IF reuse THEN Ok(supblocks_in)
             ELSE Collect([i \in DOMAIN imgs |-> get_supblocks(blocks.val[i], WindowShape)]),
             IF reuse THEN w ELSE Append(w, "get_block_types"))

\* lines 299-302
transform_single_blockfeats(s2, s3, cfg, imgs, reuse, blocks_in, supblocks_in, pm, blockfeats) ==
    IF blockfeats.err # "" THEN Done(blockfeats.err, s3, NoTable, <<"tile_images", "pixel_mean">>)
    ELSE transform_single_blocks(s3, cfg, imgs, reuse, supblocks_in, pm,
             IF reuse THEN Ok(blocks_in)
             ELSE Collect(transform_blocks(blockfeats.val, s2, GridShape(imgs, cfg.tile_size))),
             IF reuse THEN <<"tile_images", "pixel_mean">>
             ELSE <<"tile_images", "pixel_mean", "get_blockfeats">>)

\* lines 289-298
transform_single_tiled(s1, s2, s3, cfg, imgs, reuse, blocks_in, supblocks_in, tiles) ==
    IF tiles.err # "" THEN Done(tiles.err, s3, NoTable, <<>>)
    ELSE transform_single_blockfeats(s2, s3, cfg, imgs, reuse, blocks_in, supblocks_in,
             pixel_mean(tiles.val, s1.pixel_types),
             IF reuse THEN Ok(<<>>)
             ELSE Collect([i \in DOMAIN imgs |-> get_blockfeats(tiles.val[i])]))

\* _transform_single_channel with the three places it reads self told apart:
\* s1 at pixel_mean, s2 at the block types, s3 at the superblock types
transform_single_stages(s1, s2, s3, cfg, imgs, reuse, blocks_in, supblocks_in) ==
    transform_single_tiled(s1, s2, s3, cfg, imgs, reuse, blocks_in, supblocks_in,
                           tile_images(imgs, cfg.tile_size))

_transform_single_channel(self, cfg, imgs, reuse, blocks_in, supblocks_in) ==
    transform_single_stages(self, self, self, cfg, imgs, reuse, blocks_in, supblocks_in)

\* the table of transform=True handed back by a fit that ended in state s3
fit_then(s3, w, t) == Done(t.err, s3, t.val, w \o t.work)

\* lines 226-229
fit_single_km_supblock(s2, cfg, imgs, transform, blocks, supblocks, ks, w) ==
    IF ks.err # "" THEN Done(ks.err, s2, NoTable, w)
    ELSE IF transform
    THEN fit_then([s2 EXCEPT !.km_supblock = ks.val], Append(w, "km_supblock"),
                  _transform_single_channel([s2 EXCEPT !.km_supblock = ks.val], cfg, imgs,
                                            TRUE, blocks, supblocks))
    ELSE Done("", [s2 EXCEPT !.km_supblock = ks.val], NoTable, Append(w, "km_supblock"))

\* lines 224-226
fit_single_supblocks(s2, cfg, imgs, n_init, random_state, transform, blocks, supblocks, w) ==
    IF supblocks.err # "" THEN Done(supblocks.err, s2, NoTable, w)
    ELSE fit_single_km_supblock(s2, cfg, imgs, transform, blocks, supblocks.val,
             KMeans_fit(fillna0(concat(supblocks.val).val),
                        cfg.n_supblock_types, n_init, random_state),
             Append(w, "get_supblocks"))

\* line 222
fit_single_blocks(s2, cfg, imgs, n_init, random_state, transform, blocks, w) ==
    IF blocks.err # "" THEN Done(blocks.err, s2, NoTable, w)
    ELSE fit_single_supblocks(s2, cfg, imgs, n_init, random_state, transform, blocks.val,
             Collect([i \in DOMAIN imgs |-> get_supblocks(blocks.val[i], WindowShape)]),
             Append(w, "get_block_types"))

\* lines 216-221
fit_single_km_block(s1, cfg, imgs, n_init, random_state, transform, blockfeats, kb) ==
    IF kb.err # "" THEN Done(kb.err, s1, NoTable, <<"tile_images", "get_blockfeats">>)
    ELSE fit_single_blocks([s1 EXCEPT !.km_block = kb.val], cfg, imgs, n_init, random_state,
             transform,
             Collect(fit_blocks(blockfeats, [s1 EXCEPT !.km_block = kb.val],
                                GridShape(imgs, cfg.tile_size))),
             <<"tile_images", "get_blockfeats", "km_block">>)

\* lines 211-215
fit_single_blockdf(self, cfg, imgs, n_init, random_state, transform, blockfeats, blockdf) ==
    fit_single_km_block(
        [self EXCEPT !.pixel_types = [isNone |-> FALSE, cols |-> blockdf.columns]],
        cfg, imgs, n_init, random_state, transform, blockfeats,
        KMeans_fit(blockdf, cfg.n_block_types, n_init, random_state))

\* lines 209-210
fit_single_blockfeats(self, cfg, imgs, n_init, random_state, transform, blockfeats) ==
    IF blockfeats.err # "" THEN Done(blockfeats.err, self, NoTable, <<"tile_images">>)
    ELSE fit_single_blockdf(self, cfg, imgs, n_init, random_state, transform, blockfeats.val,
                            fillna0(concat(blockfeats.val).val))

\* lines 206-209
fit_single_tiled(self, cfg, imgs, n_init, random_state, transform, tiles) ==
    IF tiles.err # "" THEN Done(tiles.err, self, NoTable, <<>>)
    ELSE fit_single_blockfeats(self, cfg, imgs, n_init, random_state, transform,
             Collect([i \in DOMAIN imgs |-> get_blockfeats(tiles.val[i])]))

_fit_single_channel(self, cfg, imgs, n_init, random_state, transform) ==
    fit_single_tiled(self, cfg, imgs, n_init, random_state, transform,
                     tile_images(imgs, cfg.tile_size))

\* km_block.predict(blockdf).reshape(-1, *grid_shape)
Reshape(labels, grid_shape) ==
    [i \in 1..(Len(labels) \div (grid_shape[1] * grid_shape[2])) |->
       [r \in 1..grid_shape[1] |->
          [c \in 1..grid_shape[2] |->
             labels[(i - 1) * grid_shape[1] * grid_shape[2] + (r - 1) * grid_shape[2] + c]]]]

\* np.random.seed(random_state); np.random.choice(range(n), size=n_subset):
\* n_subset seeded draws with replacement, as 1-based row numbers
Subset(n, size, random_state) == [j \in 1..size |-> ((random_state + 2 * j) % n) + 1]

\* pc_mean, lines 321-324: the mean of each component over an image's tiles
pc_mean(blockdf, n_imgs, n_tiles) ==
    [columns |-> [j \in 1..Len(blockdf[1]) |-> <<"PC", j>>],
     index |-> PyRange(n_imgs),
     data |-> [i \in 1..n_imgs |->
                 [j \in 1..Len(blockdf[1]) |->
                    <<SumSeq([k \in 1..n_tiles |-> blockdf[(i - 1) * n_tiles + k][j]]), n_tiles>>]]]

\* lines 337-338
transform_multi_concat(s3, pcm, bm, sm, w) ==
    IF sm.err # "" THEN Done(sm.err, s3, NoTable, w)
    ELSE Done("", s3, concat_columns(<<sm.val, bm, pcm>>), Append(w, "supblock_mean"))

\* lines 329-336
transform_multi_supblocks(s3, cfg, reuse, pcm, img_blocked, supblocks, w) ==
    IF supblocks.err # "" THEN Done(supblocks.err, s3, NoTable, w)
    ELSE transform_multi_concat(s3, pcm,
             block_mean(img_blocked, MultiLabels(cfg), 1),
             supblock_mean(s3, cfg, supblocks.val, MultiLabels(cfg)),
             (IF reuse THEN w ELSE Append(w, "get_color_supblocks")) \o <<"block_mean">>)

\* line 328
transform_multi_blocked(s3, cfg, reuse, supblocks_in, pcm, img_blocked, w) ==
    transform_multi_supblocks(s3, cfg, reuse, pcm, img_blocked,
        IF reuse THEN Ok(supblocks_in)
        ELSE Collect([i \in DOMAIN img_blocked |->
                        get_color_supblocks(img_blocked[i], WindowShape)]),
        w)

\* lines 326-327
transform_multi_predicted(s3, cfg, imgs, reuse, blocked_in, supblocks_in, pcm, pred) ==
    IF pred.err # "" THEN Done(pred.err, s3, NoTable, <<"tile_images", "flatten_tiles", "pc_mean">>)
    ELSE transform_multi_blocked(s3, cfg, reuse, supblocks_in, pcm,
             IF reuse THEN blocked_in ELSE Reshape(pred.val, GridShape(imgs, cfg.tile_size)),
             IF reuse THEN <<"tile_images", "flatten_tiles", "pc_mean">>
             ELSE <<"tile_images", "flatten_tiles", "pc_mean", "km_block.predict">>)

\* lines 321-325
transform_multi_reduced(s2, s3, cfg, imgs, reuse, blocked_in, supblocks_in, n_tiles, blockdf) ==
    IF blockdf.err # "" THEN Done(blockdf.err, s3, NoTable, <<"tile_images", "flatten_tiles">>)
    ELSE IF Len(blockdf.val[1]) # cfg.n_components
    THEN Done("ValueError", s3, NoTable, <<"tile_images", "flatten_tiles">>)
    ELSE transform_multi_predicted(s3, cfg, imgs, reuse, blocked_in, supblocks_in,
             pc_mean(blockdf.val, Len(imgs), n_tiles),
             IF reuse THEN Ok(<<>>) ELSE KMeans_predict(s2.km_block, AsFrame(blockdf.val)))

\* lines 318-320
transform_multi_tiled(s1, s2, s3, cfg, imgs, reuse, blocked_in, supblocks_in, tiles) ==
    IF tiles.err # "" THEN Done(tiles.err, s3, NoTable, <<>>)
    ELSE transform_multi_reduced(s2, s3, cfg, imgs, reuse, blocked_in, supblocks_in,
             Len(tiles.val[1]),
             PCA_transform(s1.pca,
                           Flatten([i \in DOMAIN imgs |-> flatten_tiles(tiles.val[i])])))

\* _transform_multichannel with the three places it reads self told apart:
\* s1 at the reducer, s2 at the block types, s3 at the superblock types
transform_multi_stages(s1, s2, s3, cfg, imgs, reuse, blocked_in, supblocks_in) ==
    transform_multi_tiled(s1, s2, s3, cfg, imgs, reuse, blocked_in, supblocks_in,
                          tile_images(imgs, cfg.tile_size))

_transform_multichannel(self, cfg, imgs, reuse, blocked_in, supblocks_in) ==
    transform_multi_stages(self, self, self, cfg, imgs, reuse, blocked_in, supblocks_in)

\* lines 255-258
fit_multi_km_supblock(s2, cfg, imgs, transform, img_blocked, supblocks, ks, w) ==
    IF ks.err # "" THEN Done(ks.err, s2, NoTable, w)
    ELSE IF transform
    THEN fit_then([s2 EXCEPT !.km_supblock = ks.val], Append(w, "km_supblock"),
                  _transform_multichannel([s2 EXCEPT !.km_supblock = ks.val], cfg, imgs,
                                          TRUE, img_blocked, supblocks))
    ELSE Done("", [s2 EXCEPT !.km_supblock = ks.val], NoTable, Append(w, "km_supblock"))

\* lines 252-255
fit_multi_supblocks(s2, cfg, imgs, n_init, random_state, transform, img_blocked, supblocks) ==
    IF supblocks.err # ""
    THEN Done(supblocks.err, s2, NoTable,
              <<"tile_images", "flatten_tiles", "pca", "km_block", "km_block.predict">>)
    ELSE fit_multi_km_supblock(s2, cfg, imgs, transform, img_blocked, supblocks.val,
             KMeans_fit(fillna0(concat(supblocks.val).val),
                        cfg.n_supblock_types, n_init, random_state),
             <<"tile_images", "flatten_tiles", "pca", "km_block", "km_block.predict",
               "get_color_supblocks">>)

\* line 251
fit_multi_blocked(s2, cfg, imgs, n_init, random_state, transform, img_blocked) ==
    fit_multi_supblocks(s2, cfg, imgs, n_init, random_state, transform, img_blocked,
        Collect([i \in DOMAIN img_blocked |-> get_color_supblocks(img_blocked[i], WindowShape)]))

\* lines 248-250
fit_multi_km_block(s1, cfg, imgs, n_init, random_state, transform, blockdf, kb) ==
    IF kb.err # "" THEN Done(kb.err, s1, NoTable, <<"tile_images", "flatten_tiles", "pca">>)
    ELSE fit_multi_blocked([s1 EXCEPT !.km_block = kb.val], cfg, imgs, n_init, random_state,
             transform,
             Reshape(KMeans_predict(kb.val, AsFrame(blockdf)).val,
                     GridShape(imgs, cfg.tile_size)))

\* lines 242-247
fit_multi_subset(s1, cfg, imgs, n_init, random_state, transform, blockdf, subset) ==
    fit_multi_km_block(s1, cfg, imgs, n_init, random_state, transform, blockdf,
        KMeans_fit(AsFrame([j \in DOMAIN subset |-> blockdf[subset[j]]]),
                   cfg.n_block_types, n_init, random_state))

\* line 241
fit_multi_reduced(s1, cfg, imgs, n_init, random_state, transform, blockdf) ==
    fit_multi_subset(s1, cfg, imgs, n_init, random_state, transform, blockdf,
                     Subset(Len(blockdf), cfg.n_subset, random_state))

\* lines 237-240
fit_multi_pca(self, cfg, imgs, n_init, random_state, transform, Xtrain, p) ==
    IF p.err # "" THEN Done(p.err, self, NoTable, <<"tile_images", "flatten_tiles">>)
    ELSE fit_multi_reduced([self EXCEPT !.pca = p.val], cfg, imgs, n_init, random_state,
                           transform, PCA_transform(p.val, Xtrain).val)

\* line 235
fit_multi_flat(self, cfg, imgs, n_init, random_state, transform, Xtrain) ==
    fit_multi_pca(self, cfg, imgs, n_init, random_state, transform, Xtrain,
                  PCA_fit(Xtrain, cfg.n_components, random_state))

\* line 234
fit_multi_tiled(self, cfg, imgs, n_init, random_state, transform, tiles) ==
    IF tiles.err # "" THEN Done(tiles.err, self, NoTable, <<>>)
    ELSE fit_multi_flat(self, cfg, imgs, n_init, random_state, transform,
                        Flatten([i \in DOMAIN imgs |-> flatten_tiles(tiles.val[i])]))

_fit_multichannel(self, cfg, imgs, n_init, random_state, transform) ==
    fit_multi_tiled(self, cfg, imgs, n_init, random_state, transform,
                    tile_images(imgs, cfg.tile_size))

\* what a method hands back: "self", "None" or "table"; "raise" when it raised
Returned(kind, r) == [kind |-> IF r.err # "" THEN "raise" ELSE kind,
                      err |-> r.err, val |-> r.val, work |-> r.work]

Untouched(self) == Done("", self, NoTable, <<>>)

\* the state a public method leaves and what it hands back
Outcome(kind, r) == [st |-> r.st, ret |-> Returned(kind, r)]

fit(self, cfg, imgs, n_init, random_state) ==
    Outcome("self",
            IF imgs[1].ndim = 2
            THEN _fit_single_channel(self, cfg, imgs, n_init, random_state, FALSE)
            ELSE IF imgs[1].ndim = 3
            THEN _fit_multichannel(self, cfg, imgs, n_init, random_state, FALSE)
            ELSE Untouched(self))

fit_transform(self, cfg, imgs, n_init, random_state) ==
    Outcome(IF imgs[1].ndim \in {2, 3} THEN "table" ELSE "None",
            IF imgs[1].ndim = 2
            THEN _fit_single_channel(self, cfg, imgs, n_init, random_state, TRUE)
            ELSE IF imgs[1].ndim = 3
            THEN _fit_multichannel(self, cfg, imgs, n_init, random_state, TRUE)
            ELSE Untouched(self))

\* the stages of transform by rank
transform_by_rank(s1, s2, s3, cfg, imgs) ==
    IF imgs[1].ndim = 2
    THEN transform_single_stages(s1, s2, s3, cfg, imgs, FALSE, <<>>, <<>>)
    ELSE IF imgs[1].ndim = 3
    THEN transform_multi_stages(s1, s2, s3, cfg, imgs, FALSE, <<>>, <<>>)
    ELSE Untouched(s3)

OutcomeUpdatingVocabulary(kind, r, imgs) ==
    [st |-> [r.st EXCEPT !.pixel_types =
               [isNone |-> FALSE,
                cols |-> IF imgs[1].ndim = 2 THEN SortedSeq(Range(Flatten(imgs[1].px)))
                         ELSE <<0>>]],
     ret |-> Returned(kind, r)]

transform_stages_updating_vocabulary(s1, s2, s3, cfg, imgs) ==
    OutcomeUpdatingVocabulary(IF imgs[1].ndim \in {2, 3} THEN "table" ELSE "None",
                              transform_by_rank(s1, s2, s3, cfg, imgs), imgs)

\* transform, with the fitted attributes as read at each of its three stages
transform_stages(s1, s2, s3, cfg, imgs) ==
    Outcome(IF imgs[1].ndim \in {2, 3} THEN "table" ELSE "None",
            transform_by_rank(s1, s2, s3, cfg, imgs))

transform(self, cfg, imgs) == transform_stages(self, self, self, cfg, imgs)

(***************************************************************************)
(* Inputs: images, batches, seeds and configurations.                      *)
(***************************************************************************)
Image(nd, sh, px) == [ndim |-> nd, shape |-> sh, px |-> px]

Grey(px) == Image(2, <<Len(px), Len(px[1])>>, px)

Multi(px) == Image(3, <<Len(px), Len(px[1]), Len(px[1][1])>>, px)

\* the greyscale images are 3 x 9: tile width 2 leaves one ragged column
\* foreground and background tiles mixed, pixel levels 0, 1, 2
ImgA == Grey(<< <<1, 1, 1, 2, 0, 0, 2, 2, 1>>,
                <<1, 1, 2, 2, 1, 2, 0, 1, 0>>,
                <<0, 0, 1, 1, 2, 2, 1, 0, 2>> >>)

\* every tile foreground, pixel levels 1 and 3 (and 0 in the ragged column)
ImgB == Grey(<< <<3, 3, 1, 1, 1, 3, 3, 3, 0>>,
                <<1, 1, 3, 3, 3, 1, 1, 1, 3>>,
                <<3, 1, 1, 1, 3, 3, 1, 3, 1>> >>)

\* pure background
ImgZ == Grey(<< <<0, 0, 0, 0, 0, 0, 0, 0, 0>>,
                <<0, 0, 0, 0, 0, 0, 0, 0, 0>>,
                <<0, 0, 0, 0, 0, 0, 0, 0, 0>> >>)

ImgM1 == Multi(<< << <<1, 0>>, <<1, 0>>, <<2, 1>>, <<2, 1>>, <<0, 0>>, <<0, 0>> >>,
                  << <<2, 1>>, <<2, 1>>, <<1, 0>>, <<1, 0>>, <<1, 0>>, <<1, 0>> >>,
                  << <<0, 0>>, <<0, 0>>, <<2, 1>>, <<2, 1>>, <<1, 0>>, <<1, 0>> >> >>)

ImgM2 == Multi(<< << <<1, 0>>, <<1, 0>>, <<1, 0>>, <<1, 0>>, <<1, 0>>, <<1, 0>> >>,
                  << <<1, 0>>, <<1, 0>>, <<3, 2>>, <<3, 2>>, <<1, 0>>, <<1, 0>> >>,
                  << <<1, 0>>, <<1, 0>>, <<1, 0>>, <<1, 0>>, <<1, 0>>, <<1, 0>> >> >>)

\* a rank-1 and a rank-4 array
ImgR1 == Image(1, <<4>>, <<1, 2, 0, 1>>)

ImgR4 == Image(4, <<1, 1, 1, 2>>, << << << <<1, 2>> >> >> >>)

Batches ==
    { <<ImgA>>, <<ImgB>>, <<ImgB, ImgA>>, <<ImgA, ImgZ>>,
      <<ImgM1>>, <<ImgM1, ImgM2>>,
      <<ImgR1>>, <<ImgR4>> }

MaxRandomState == 1

NInits == {1}

RandomStates == 0..MaxRandomState

Configs ==
    { [tile_size |-> <<1, 2>>, n_block_types |-> 2, n_supblock_types |-> 2,
       n_components |-> 2, n_subset |-> 4] }

(***************************************************************************)
(* The profiler as a state machine: one action per public method.          *)
(***************************************************************************)
Self == [pca |-> pca, km_block |-> km_block, km_supblock |-> km_supblock,
         pixel_types |-> pixel_types]

Cfg == [tile_size |-> tile_size, n_block_types |-> n_block_types,
        n_supblock_types |-> n_supblock_types, n_components |-> n_components,
        n_subset |-> n_subset]

\* the threads that may call transform on the one profiler
Callers == {"t1", "t2"}

\* SegfreeProfiler.__init__
Fresh == [pca |-> NonePCA, km_block |-> None, km_supblock |-> None,
          pixel_types |-> NoPixelTypes]

NoRet == [kind |-> "none", err |-> "", val |-> NoTable, work |-> <<>>]

\* a thread that is not inside transform
Idle == [pc |-> "idle", imgs |-> <<>>, s1 |-> Fresh, s2 |-> Fresh,
         overlapped |-> FALSE, ret |-> NoRet]

Init ==
    /\ \E c \in Configs :
         /\ tile_size = c.tile_size
         /\ n_block_types = c.n_block_types
         /\ n_supblock_types = c.n_supblock_types
         /\ n_components = c.n_components
         /\ n_subset = c.n_subset
    /\ pca = Fresh.pca
    /\ km_block = Fresh.km_block
    /\ km_supblock = Fresh.km_supblock
    /\ pixel_types = Fresh.pixel_types
    /\ call = [op |-> "__init__", imgs |-> <<>>, n_init |-> 0, random_state |-> 0]
    /\ ret = [kind |-> "self", err |-> "", val |-> NoTable, work |-> <<>>]
    /\ flight = [c \in Callers |-> Idle]

Store(op, imgs, n_init, random_state, r) ==
    /\ pca' = r.st.pca
    /\ km_block' = r.st.km_block
    /\ km_supblock' = r.st.km_supblock
    /\ pixel_types' = r.st.pixel_types
    /\ call' = [op |-> op, imgs |-> imgs, n_init |-> n_init, random_state |-> random_state]
    /\ ret' = r.ret
    /\ UNCHANGED <<config, flight>>

Fit(imgs, n_init, random_state) ==
    LET r == fit(Self, Cfg, imgs, n_init, random_state)
    IN Store("fit", imgs, n_init, random_state, r)

FitTransform(imgs, n_init, random_state) ==
    LET r == fit_transform(Self, Cfg, imgs, n_init, random_state)
    IN Store("fit_transform", imgs, n_init, random_state, r)

Transform(imgs) ==
    LET r == transform(Self, Cfg, imgs)
    IN Store("transform", imgs, 0, 0, r)

Next ==
    \/ \E imgs \in Batches, n \in NInits, rs \in RandomStates : Fit(imgs, n, rs)
    \/ \E imgs \in Batches, n \in NInits, rs \in RandomStates : FitTransform(imgs, n, rs)
    \/ \E imgs \in Batches : Transform(imgs)

Spec == Init /\ [][Next]_vars

(***************************************************************************)
(* Concurrent transform calls on one profiler.  A call reads the fitted    *)
(* attributes at three stages; the stages of different threads interleave  *)
(* freely.  The profiler is fitted once, before any thread is inside       *)
(* transform.                                                              *)
(***************************************************************************)
ConcFitBatches == { <<ImgA, ImgB>>, <<ImgM1, ImgM2>> }

ConcBatches == { <<ImgA>>, <<ImgB>>, <<ImgM1>> }

InFlight(c) == flight[c].pc \in {"read1", "read2"}

ConcFit(imgs, n_init, random_state) ==
    /\ call.op = "__init__"
    /\ \A c \in Callers : flight[c].pc = "idle"
    /\ Fit(imgs, n_init, random_state)

\* stage 1, lines 288-295 / 318-324
Begin(c, imgs) ==
    /\ flight[c].pc = "idle"
    /\ flight' = [d \in Callers |->
                    IF d = c
                    THEN [pc |-> "read1", imgs |-> imgs, s1 |-> Self, s2 |-> Fresh,
                          overlapped |-> \E e \in Callers \ {c} : InFlight(e),
                          ret |-> NoRet]
                    ELSE IF InFlight(d) THEN [flight[d] EXCEPT !.overlapped = TRUE]
                    ELSE flight[d]]
    /\ UNCHANGED <<config, fitted, call, ret>>

\* stage 2, lines 296-303 / 325-328
Read2(c) ==
    /\ flight[c].pc = "read1"
    /\ flight' = [flight EXCEPT ![c].pc = "read2", ![c].s2 = Self]
    /\ UNCHANGED <<config, fitted, call, ret>>

\* the return of thread c's call with outcome r
Return(c, r) ==
    /\ flight' = [flight EXCEPT ![c].pc = "done", ![c].s1 = Fresh, ![c].s2 = Fresh,
                                ![c].ret = r.ret]
    /\ pca' = r.st.pca
    /\ km_block' = r.st.km_block
    /\ km_supblock' = r.st.km_supblock
    /\ pixel_types' = r.st.pixel_types

\* stage 3, lines 304-313 / 329-338, and the return
Finish(c) ==
    /\ flight[c].pc = "read2"
    /\ Return(c, transform_stages(flight[c].s1, flight[c].s2, Self, Cfg, flight[c].imgs))
    /\ UNCHANGED <<config, call, ret>>

NextConc ==
    \/ \E imgs \in ConcFitBatches, n \in NInits, rs \in RandomStates : ConcFit(imgs, n, rs)
    \/ \E c \in Callers, imgs \in ConcBatches : Begin(c, imgs)
    \/ \E c \in Callers : Read2(c)
    \/ \E c \in Callers : Finish(c)

SpecConc == Init /\ [][NextConc]_vars

(***************************************************************************)
(* The tiler on its own: tile_images applied to images whose pixels are    *)
(* their own coordinates, for every image and tile size within the bounds. *)
(***************************************************************************)
MaxDim == 5

MaxTile == 3

DefaultBlockTypes == 50

DefaultSupblockTypes == 30

DefaultComponents == 50

DefaultSubset == 10000

CoordChannels == 2

CoordImage(H, W, nd) ==
    IF nd = 2
    THEN Image(2, <<H, W>>, [r \in 1..H |-> [c \in 1..W |-> <<r, c>>]])
    ELSE Image(3, <<H, W, CoordChannels>>,
               [r \in 1..H |-> [c \in 1..W |-> [ch \in 1..CoordChannels |-> <<r, c, ch>>]]])

InitTile ==
    /\ tile_size \in (1..MaxTile) \X (1..MaxTile)
    /\ n_block_types = DefaultBlockTypes
    /\ n_supblock_types = DefaultSupblockTypes
    /\ n_components = DefaultComponents
    /\ n_subset = DefaultSubset
    /\ pca = Fresh.pca
    /\ km_block = Fresh.km_block
    /\ km_supblock = Fresh.km_supblock
    /\ pixel_types = Fresh.pixel_types
    /\ call = [op |-> "__init__", imgs |-> <<>>, n_init |-> 0, random_state |-> 0]
    /\ ret = [kind |-> "self", err |-> "", val |-> NoTable, work |-> <<>>]
    /\ flight = [c \in Callers |-> Idle]

TileImages(imgs) ==
    LET r == tile_images(imgs, tile_size)
    IN /\ call' = [op |-> "tile_images", imgs |-> imgs, n_init |-> 0, random_state |-> 0]
       /\ ret' = [kind |-> IF r.err = "" THEN "tiles" ELSE "raise",
                  err |-> r.err, val |-> r.val, work |-> <<>>]
       /\ UNCHANGED <<config, fitted, flight>>

NextTile ==
    \/ \E H \in 1..MaxDim, W \in 1..MaxDim, nd \in {2, 3} : TileImages(<<CoordImage(H, W, nd)>>)
    \/ \E img \in {ImgR1, ImgR4} : TileImages(<<img>>)

SpecTile == InitTile /\ [][NextTile]_vars

(***************************************************************************)
(* Properties.                                                             *)
(***************************************************************************)
Rank == IF call.imgs = <<>> THEN 0 ELSE call.imgs[1].ndim

IsFitOp == call.op \in {"fit", "fit_transform"}

\* the fit part of the last fit / fit_transform ran to its end
FitCompleted == IsFitOp /\ "km_supblock" \in Range(ret.work)

Labelled(prefix, labels) == [j \in DOMAIN labels |-> <<prefix, labels[j]>>]

\* the column names the fitted state and the configuration determine
ExpectedColumns(nd) ==
    IF nd = 2
    THEN Labelled("superblock", [i \in 1..n_supblock_types |-> i])
         \o Labelled("block", PyRange(n_block_types + 1))
         \o Labelled("pixel", pixel_types.cols)
    ELSE Labelled("superblock", [i \in 1..n_supblock_types |-> i])
         \o Labelled("block", [i \in 1..n_block_types |-> i])
         \o Labelled("PC", [i \in 1..n_components |-> i])

PixelsOf(img) == Range(Flatten(img.px))

\* C1: every table transform returns has the columns fixed by the fitted
\* state (superblock types, then block types, then pixel levels or mean
\* components), one row per image, no missing cell, and a zero in every
\* pixel-level column whose level the image lacks; levels outside the
\* fit-time vocabulary add no column.
C1_ColumnsFixed ==
    (call.op = "transform" /\ ret.kind = "table") =>
        /\ ret.val.columns = ExpectedColumns(Rank)
        /\ Len(ret.val.data) = Len(call.imgs)
        /\ \A r \in DOMAIN ret.val.data :
             /\ Len(ret.val.data[r]) = Len(ret.val.columns)
             /\ \A j \in DOMAIN ret.val.columns :
                  /\ ret.val.data[r][j] # NaN
                  /\ (/\ ret.val.columns[j][1] = "pixel"
                      /\ ret.val.columns[j][2] \notin PixelsOf(call.imgs[r]))
                     => ret.val.data[r][j] = Zero

\* a transform that returned a table for an image that lacks a vocabulary
\* level and holds a level outside the vocabulary
C1_Witness ==
    /\ call.op = "transform"
    /\ ret.kind = "table"
    /\ Rank = 2
    /\ \E r \in DOMAIN call.imgs :
         /\ \E v \in Range(pixel_types.cols) : v \notin PixelsOf(call.imgs[r])
         /\ \E v \in PixelsOf(call.imgs[r]) : v # 0 /\ v \notin Range(pixel_types.cols)

\* fit followed by transform on the same images: the state fit leaves and
\* how the pair ends (fit's exception, else transform's table or exception)
FitThenTransform(self, cfg, imgs, n_init, random_state) ==
    LET f == fit(self, cfg, imgs, n_init, random_state)
    IN IF f.ret.err # ""
       THEN <<f.st, "raise", f.ret.err, NoTable>>
       ELSE LET t == transform(f.st, cfg, imgs)
            IN <<f.st, t.ret.kind, t.ret.err, t.ret.val>>

\* C2: fit_transform leaves the fitted state fit leaves, raises what fit
\* raises, and otherwise ends as transform on the fitted state ends on the
\* same images (same table, same exception).
C2_FitTransformAgrees ==
    [][call'.op = "fit_transform" =>
         <<Self', ret'.kind, ret'.err, ret'.val>>
             = FitThenTransform(Self, Cfg, call'.imgs, call'.n_init, call'.random_state)]_vars

\* a fit_transform that returned the table of a two-image batch
C2_Witness ==
    /\ call.op = "fit_transform"
    /\ ret.kind = "table"
    /\ Len(call.imgs) = 2
    /\ Len(ret.val.data) = 2

BlockColumns(df) == SelectSeq(df.columns, LAMBDA c : c[1] = "block")

BlockCells(df, r) ==
    LET js == SortedSeq({j \in DOMAIN df.columns : df.columns[j][1] = "block"})
    IN [i \in DOMAIN js |-> df.data[r][js[i]]]

GridCells == LET g == GridShape(call.imgs, tile_size) IN g[1] * g[2]

ForegroundTiles(img) == Len(ForegroundPositions(tile_images(<<img>>, tile_size).val[1]))

SingleChannelTable == call.op \in {"fit_transform", "transform"} /\ ret.kind = "table" /\ Rank = 2

\* C3 as stated: n_block_types block-type columns, labels 1..n_block_types,
\* summing to 1 for an image with a foreground tile and to 0 otherwise.
C3_Original ==
    SingleChannelTable =>
        /\ BlockColumns(ret.val) = Labelled("block", [i \in 1..n_block_types |-> i])
        /\ \A r \in DOMAIN ret.val.data :
             SumSeq([i \in 1..n_block_types |-> BlockCells(ret.val, r)[i][1]])
                 = IF ForegroundTiles(call.imgs[r]) > 0 THEN GridCells ELSE 0

\* C3 amended: n_block_types + 1 block-type columns, labels 0..n_block_types,
\* every cell a count over the grid's cells; the columns sum to 1 in every
\* row, the columns of labels 1..n_block_types to the fraction of foreground
\* tiles, and column 0 holds the fraction of background tiles.
C3_BlockColumns ==
    SingleChannelTable =>
        /\ BlockColumns(ret.val) = Labelled("block", PyRange(n_block_types + 1))
        /\ \A r \in DOMAIN ret.val.data :
             LET cells == BlockCells(ret.val, r)
             IN /\ \A i \in DOMAIN cells : cells[i] = Zero \/ (cells[i][1] > 0 /\ cells[i][2] = GridCells)
                /\ SumSeq([i \in DOMAIN cells |-> cells[i][1]]) = GridCells
                /\ SumSeq([i \in 1..(Len(cells) - 1) |-> cells[i + 1][1]]) = ForegroundTiles(call.imgs[r])
                /\ cells[1][1] = GridCells - ForegroundTiles(call.imgs[r])

\* a single-channel row with background and foreground tiles
C3_Witness ==
    /\ SingleChannelTable
    /\ \E r \in DOMAIN ret.val.data :
         /\ BlockCells(ret.val, r)[1][1] > 0
         /\ ForegroundTiles(call.imgs[r]) > 0

HasBackgroundImage == \E i \in DOMAIN call.imgs : ForegroundTiles(call.imgs[i]) = 0

HasForegroundImage == \E i \in DOMAIN call.imgs : ForegroundTiles(call.imgs[i]) > 0

\* C4: fit on a single-channel batch holding an image without a foreground
\* tile and an image with foreground tiles does not raise.
C4_BackgroundImageTolerated ==
    (call.op = "fit" /\ Rank = 2 /\ HasBackgroundImage /\ HasForegroundImage)
        => ret.kind # "raise"

\* C5: fit, fit_transform and transform raise for images whose rank is
\* outside {2, 3}.
C5_RankRejected ==
    (call.op \in {"fit", "fit_transform", "transform"} /\ Rank \notin {2, 3})
        => ret.kind = "raise"

\* C6: transform on a profiler on which no fit has completed raises before
\* any per-image stage has run.
C6_NotFittedEager ==
    (call.op = "transform" /\ Rank \in {2, 3} /\ km_supblock.isNone)
        => (ret.kind = "raise" /\ ret.work = <<>>)

\* C8: after a fit that ran to its end the fitted state is what that one
\* fit call produces on a freshly constructed profiler.
C8_StateOfOneFit ==
    FitCompleted =>
        Self = fit(Fresh, Cfg, call.imgs, call.n_init, call.random_state).st

\* C9: no stage of a transform call, returning or raising, changes the
\* fitted state or the configuration; and every transform call that has
\* ended among interleaved calls ended as the same call ends run alone.
C9_TransformFrame ==
    /\ [][flight' # flight => UNCHANGED <<config, fitted>>]_vars
    /\ [](\A c \in Callers :
            flight[c].pc = "done" => flight[c].ret = transform(Self, Cfg, flight[c].imgs).ret)

\* two calls whose stages overlapped, one returned a table, one raised
C9_Witness ==
    \E c \in Callers, d \in Callers :
        /\ flight[c].pc = "done" /\ flight[c].overlapped /\ flight[c].ret.kind = "table"
        /\ flight[d].pc = "done" /\ flight[d].overlapped /\ flight[d].ret.kind = "raise"
        /\ ~km_supblock.isNone

\* C10: the frame the superblock clusterer is fitted on has the columns of
\* the full block-type label space in label order, the columns handed to
\* it at assignment.
C10_FitOnFullLabelSpace ==
    FitCompleted =>
        km_supblock.cols = IF Rank = 2 THEN SingleLabels(Cfg) ELSE MultiLabels(Cfg)

\* the image coordinate <<row, column>> a tile element came from
CoordOf(e) == IF Rank = 2 THEN e ELSE <<e[1][1], e[1][2]>>

\* C7: for th <= H and tw <= W tile_images returns floor(H/th) * floor(W/tw)
\* tiles of shape th x tw (x channels) in row-major grid order, every
\* element a pixel of the image in its place, every pixel of the first
\* floor(H/th)*th rows and floor(W/tw)*tw columns in exactly one tile and
\* no other pixel in any.
C7_TilesPartition ==
    (/\ call.op = "tile_images"
     /\ Rank \in {2, 3}
     /\ tile_size[1] <= call.imgs[1].shape[1]
     /\ tile_size[2] <= call.imgs[1].shape[2]) =>
        LET H == call.imgs[1].shape[1]
            W == call.imgs[1].shape[2]
            th == tile_size[1]
            tw == tile_size[2]
            gh == H \div th
            gw == W \div tw
            tiles == ret.val[1]
            Places == {<<k, i, j>> \in (1..(gh * gw)) \X (1..th) \X (1..tw) : TRUE}
        IN /\ ret.kind = "tiles"
           /\ Len(ret.val) = 1
           /\ Len(tiles) = gh * gw
           /\ \A k \in DOMAIN tiles :
                /\ Len(tiles[k]) = th
                /\ \A i \in 1..th :
                     /\ Len(tiles[k][i]) = tw
                     /\ \A j \in 1..tw :
                          LET rc == CoordOf(tiles[k][i][j])
                          IN /\ tiles[k][i][j] = call.imgs[1].px[rc[1]][rc[2]]
                             /\ rc[1] - i = ((k - 1) \div gw) * th
                             /\ rc[2] - j = ((k - 1) % gw) * tw
           /\ \A r \in 1..H, c \in 1..W :
                Cardinality({p \in Places : CoordOf(tiles[p[1]][p[2]][p[3]]) = <<r, c>>})
                    = IF r <= gh * th /\ c <= gw * tw THEN 1 ELSE 0

\* a rank-3 image tiled into a 2 x 2 grid with a ragged row and a ragged column
C7_Witness ==
    /\ call.op = "tile_images"
    /\ ret.kind = "tiles"
    /\ Rank = 3
    /\ call.imgs[1].shape[1] % tile_size[1] # 0
    /\ call.imgs[1].shape[2] % tile_size[2] # 0
    /\ call.imgs[1].shape[1] \div tile_size[1] >= 2
    /\ call.imgs[1].shape[2] \div tile_size[2] >= 2

\* the pixels of the tile at grid cell <<r, c>> of a greyscale image, read
\* from the image row by row
TileAt(img, r, c) ==
    [p \in 1..(tile_size[1] * tile_size[2]) |->
       img.px[(r - 1) * tile_size[1] + ((p - 1) \div tile_size[2]) + 1]
             [(c - 1) * tile_size[2] + ((p - 1) % tile_size[2]) + 1]]

\* more than half of the pixels nonzero
MostlyNonzero(t) == 2 * Cardinality({p \in DOMAIN t : t[p] # 0}) > Len(t)

\* the grid cells of the call's images, as <<image, row, column>>
Cells ==
    {x \in (DOMAIN call.imgs) \X (1..GridShape(call.imgs, tile_size)[1])
                              \X (1..GridShape(call.imgs, tile_size)[2]) : TRUE}

CellTile(x) == TileAt(call.imgs[x[1]], x[2], x[3])

\* the call got as far as the block-type grids of its images
GridsProduced ==
    /\ call.op \in {"fit", "fit_transform", "transform"}
    /\ Rank = 2
    /\ "get_block_types" \in Range(ret.work)

\* the block-type grids of the call, computed as the call computed them
BlockGrids ==
    LET tiles == tile_images(call.imgs, tile_size).val
        blockfeats == [i \in DOMAIN call.imgs |-> get_blockfeats(tiles[i]).val]
        grid_shape == GridShape(call.imgs, tile_size)
    IN Vals(IF IsFitOp THEN fit_blocks(blockfeats, Self, grid_shape)
            ELSE transform_blocks(blockfeats, Self, grid_shape))

\* the grey levels a tile of image i is described by: the fitted vocabulary,
\* or the levels of the image's own foreground tiles when none is fitted
FeatureLevels(i) ==
    IF pixel_types.isNone
    THEN get_blockfeats(tile_images(call.imgs, tile_size).val[i]).val.columns
    ELSE pixel_types.cols

\* the block type of one tile of image i on its own: nearest centre, plus one
TileLabel(i, t) ==
    KMeans_predict(km_block,
                   fillna0(reindex(get_block_counts(t), FeatureLevels(i)))).val[1] + 1

\* C11: on the single-channel path every block-type grid that fit or
\* transform produces has the shape of the tile grid; a cell holds 0 exactly
\* when at most half of its tile's pixels are nonzero; a cell whose tile is
\* foreground holds that tile's own block type, a label in 1..n_block_types;
\* and the block vocabulary (the grey levels and the centres of km_block) is
\* fitted on the histograms of foreground tiles only.
C11_ForegroundGrid ==
    /\ GridsProduced =>
          LET grids == BlockGrids
              shape == GridShape(call.imgs, tile_size)
          IN /\ Len(grids) = Len(call.imgs)
             /\ \A i \in DOMAIN grids :
                  /\ Len(grids[i]) = shape[1]
                  /\ \A r \in DOMAIN grids[i] : Len(grids[i][r]) = shape[2]
             /\ \A x \in Cells :
                  LET label == grids[x[1]][x[2]][x[3]]
                  IN /\ label = 0 <=> ~MostlyNonzero(CellTile(x))
                     /\ MostlyNonzero(CellTile(x)) =>
                           /\ label \in 1..n_block_types
                           /\ label = TileLabel(x[1], CellTile(x))
    /\ (IsFitOp /\ Rank = 2 /\ "km_block" \in Range(ret.work)) =>
          /\ ~pixel_types.isNone
          /\ Range(pixel_types.cols) =
                UNION {Range(CellTile(x)) : x \in {y \in Cells : MostlyNonzero(CellTile(y))}}
          /\ \A k \in DOMAIN km_block.centers :
                \E x \in Cells :
                   /\ MostlyNonzero(CellTile(x))
                   /\ km_block.centers[k] =
                        [j \in DOMAIN pixel_types.cols |-> Count(CellTile(x), pixel_types.cols[j])]

\* a transform on a profiler fitted on greyscale images whose grid has a labelled foreground
\* cell, a zero cell whose tile is all zero and a zero cell whose tile is
\* exactly half nonzero
C11_Witness ==
    /\ call.op = "transform"
    /\ GridsProduced
    /\ ~pixel_types.isNone
    /\ 0 \notin Range(pixel_types.cols)
    /\ \E x \in Cells : BlockGrids[x[1]][x[2]][x[3]] >= 1 /\ MostlyNonzero(CellTile(x))
    /\ \E x \in Cells : BlockGrids[x[1]][x[2]][x[3]] = 0 /\ Range(CellTile(x)) = {0}
    /\ \E x \in Cells :
          /\ BlockGrids[x[1]][x[2]][x[3]] = 0
          /\ 2 * Cardinality({p \in DOMAIN CellTile(x) : CellTile(x)[p] # 0}) = Len(CellTile(x))

====
